---- MODULE Spec2Model ----
(***************************************************************************)
(* Ping-pong scoring: the game state machine (struct PingPongGame, in its  *)
(* two definitions found in the source) and the handlers of the polling    *)
(* loop that drive it.                                                     *)
(***************************************************************************)
EXTENDS Integers, Sequences, FiniteSets, TLC

\* ------------------------------------------------------------------------
\* Program constants (include/config.h)
\* ------------------------------------------------------------------------
POINTS_TO_WIN == 21
SERVE_SWITCH_EVERY == 5
DEUCE_SERVE_SWITCH == 2
DEUCE_THRESHOLD == 20
WIN_BY == 2
ANIMATION_SPEED_MS == 50

\* uint8_t score[2]: arithmetic on a score is modulo 2^8
UINT8 == 256
\* int totalFrames = 30 in animateServeChange
totalFrames == 30
\* elapsed > 8000 in animateVictory
VictoryMs == 8000
\* the gate of handleGameOver one second shorter
NewGameGateMs_short == 2000
\* elapsed > 3000 in handleGameOver
NewGameGateMs == 3000
\* delay(300) after a new game is started in handleGameOver
NewGameDelayMs == 300
\* DEBOUNCE_MS (include/config.h)
DEBOUNCE_MS == 100
\* a long press one second shorter
LONG_PRESS_MS_short == 2000
\* LONG_PRESS_MS (include/config.h)
LONG_PRESS_MS == 3000
\* delay(16) at the end of loop()
LoopDelayMs == 16
\* the long-press reset with delay(200) alone, without animateStartup()
ResetBlockMs_noStartup == 200
\* delay(200) + animateStartup() (144*10 + 500 + 37*15 ms) in the long-press reset
ResetBlockMs == 2695
\* animateStartup(): TOTAL_LEDS frames of delay(10), delay(500), 37 fade steps of delay(15)
StartupMs == 2495
TOTAL_LEDS == 144
SCORE_LEDS_PER_SIDE == 41
LOSER_DIM == 20
\* sizeof(SCORE_COLORS) / sizeof(SCORE_COLORS[0])
NUM_SCORE_COLORS == 5
\* the range of beatsin8(60 / SERVE_PULSE_SPEED, 40, 255)
ServePulseMin == 40
ServePulseMax == 255
\* the lower end of beatsin8(30, 80, 255)
DeucePulseMin == 80

\* ------------------------------------------------------------------------
\* Bounds of the model
\* ------------------------------------------------------------------------
\* the clock is advanced in steps of TickMs, for MaxTime ms after the initial state
TickMs == 1500
MaxTime == 7500
\* the clock and the last stamp of a run that starts in mid-game
StartStamp == 600000
\* the tied scores a run starts from in mid-game: before deuce, and before the
\* 8-bit score runs out
MidScore == 19
LateScore == 253
\* player arguments handed to addPoint / removePoint: 0 .. MaxPlayerArg
MaxPlayerArg == 2
\* undo (removePoint) calls modelled per game
MaxUndo == 2
\* the scores the pure functions are evaluated on (SpecFn): 0 .. MaxScore
MaxScore == 26

\* the work of one loop() iteration (reading the pins, writing the LED strip)
\* takes FrameWorkMs, so an iteration takes LoopDelayMs + FrameWorkMs
FrameWorkMs == 4
\* the pins may change level in one iteration out of InputEvery
InputEvery == 50
\* and only in the first InputWindowMs of the time the loop is followed for
InputWindowMs == 4000
\* the polling loop is followed for MaxLoopTime ms
MaxLoopTime == 8100
\* the tied score a run of the polling loop may start from, just before a serve change
LoopScore == 2
\* the pulse of the indicators is sampled every PulseStep levels
PulseStep == 150
\* a run of the frames covers DrawSpan points from a score of 0 and from MidScore
DrawSpan == 3

Players == {0, 1}
PlayerArgs == 0 .. MaxPlayerArg

\* enum class GameState
PLAYING == "PLAYING"
SERVE_CHANGE == "SERVE_CHANGE"
GAME_OVER == "GAME_OVER"

\* the levels digitalRead() returns (INPUT_PULLUP: a pressed button reads LOW)
LOW == "LOW"
HIGH == "HIGH"
Levels == {LOW, HIGH}

\* The two definitions of struct PingPongGame in the source:
\*   "GP"    display.h 469-587 (game-point rule, advantage rule in deuce)
\*   "Plain" display.h 604-713 (serve blocks only)
GameDefs == {"GP", "Plain"}
\* The two definitions of handleGameOver's new-game policy:
\*   "Alternate"  src/main.cpp 153-167, "LoserFirst" part_000 377-391
MainDefs == {"Alternate", "LoserFirst"}

VARIABLES
    game,       \* PingPongGame game: [score, servingPlayer, firstServer, state, animStartTime]
    now,        \* millis()
    gameDef,    \* which definition of PingPongGame the build holds
    mainDef,    \* which definition of handleGameOver the build holds
    undos,      \* removePoint calls made in the current game
    btn1,       \* ButtonState btn1: [lastState, currentState, lastPressTime, pressed]
    btn2,       \* ButtonState btn2
    bothHeldSince,
    resetTriggered,
    startupRuns,   \* the calls of display.animateStartup() made so far
    displayDef,    \* which class ScoreDisplay the build uses
    leds,          \* ScoreDisplay::leds
    last        \* the last operation: [op, player, ret] and the phase it was called in (from)

vars == <<game, now, gameDef, mainDef, undos, btn1, btn2, bothHeldSince, resetTriggered,
          startupRuns, displayDef, leds, last>>

\* the globals of the polling loop
ioVars == <<btn1, btn2, bothHeldSince, resetTriggered, startupRuns, displayDef, leds>>

\* ------------------------------------------------------------------------
\* struct PingPongGame
\* ------------------------------------------------------------------------
\* reset() handing the first serve to player 1
reset_secondServer(g) ==
    [score |-> [p \in Players |-> 0],
     servingPlayer |-> 1,
     firstServer |-> 1,
     state |-> PLAYING,
     animStartTime |-> 0]

reset(g) ==
    [score |-> [p \in Players |-> 0],
     servingPlayer |-> 0,
     firstServer |-> 0,
     state |-> PLAYING,
     animStartTime |-> 0]

totalPoints(g) == g.score[0] + g.score[1]

\* isDeuce with the threshold compared strictly
isDeuce_strict(g) == g.score[0] > DEUCE_THRESHOLD /\ g.score[1] > DEUCE_THRESHOLD

isDeuce(g) == g.score[0] >= DEUCE_THRESHOLD /\ g.score[1] >= DEUCE_THRESHOLD

\* isGamePoint counting a player as at game point only from POINTS_TO_WIN on
isGamePoint_atWin(g) ==
    /\ ~isDeuce(g)
    /\ (g.score[0] >= POINTS_TO_WIN \/ g.score[1] >= POINTS_TO_WIN)

isGamePoint(g) ==
    /\ ~isDeuce(g)
    /\ (g.score[0] >= POINTS_TO_WIN - 1 \/ g.score[1] >= POINTS_TO_WIN - 1)

\* calculateServingPlayer (503-529) counting the deuce blocks of a tie in blocks
\* of SERVE_SWITCH_EVERY points
calculateServingPlayer_GP_longDeuceBlocks(g) ==
    LET total == g.score[0] + g.score[1] IN
    IF ~(g.score[0] >= DEUCE_THRESHOLD /\ g.score[1] >= DEUCE_THRESHOLD)
    THEN IF g.score[0] >= POINTS_TO_WIN - 1 \/ g.score[1] >= POINTS_TO_WIN - 1
         THEN (IF g.score[0] >= POINTS_TO_WIN - 1 THEN 1 ELSE 0)
         ELSE (g.firstServer + ((total \div SERVE_SWITCH_EVERY) % UINT8)) % 2
    ELSE IF g.score[0] > g.score[1] THEN 1
         ELSE IF g.score[1] > g.score[0] THEN 0
         ELSE (g.firstServer + (DEUCE_THRESHOLD * 2) \div SERVE_SWITCH_EVERY
                 + (total - DEUCE_THRESHOLD * 2) \div SERVE_SWITCH_EVERY) % 2

\* calculateServingPlayer (503-529) giving the serve in deuce to the player
\* who holds the advantage
calculateServingPlayer_GP_leaderServes(g) ==
    LET total == g.score[0] + g.score[1] IN
    IF ~(g.score[0] >= DEUCE_THRESHOLD /\ g.score[1] >= DEUCE_THRESHOLD)
    THEN IF g.score[0] >= POINTS_TO_WIN - 1 \/ g.score[1] >= POINTS_TO_WIN - 1
         THEN (IF g.score[0] >= POINTS_TO_WIN - 1 THEN 1 ELSE 0)
         ELSE (g.firstServer + ((total \div SERVE_SWITCH_EVERY) % UINT8)) % 2
    ELSE IF g.score[0] > g.score[1] THEN 0
         ELSE IF g.score[1] > g.score[0] THEN 1
         ELSE (g.firstServer + (DEUCE_THRESHOLD * 2) \div SERVE_SWITCH_EVERY
                 + (total - DEUCE_THRESHOLD * 2) \div DEUCE_SERVE_SWITCH) % 2

\* display.h 503-529
calculateServingPlayer_GP(g) ==
    LET total == totalPoints(g) IN
    IF ~isDeuce(g)
    THEN IF isGamePoint(g)
         THEN (IF g.score[0] >= POINTS_TO_WIN - 1 THEN 1 ELSE 0)
         ELSE LET serveBlock == (total \div SERVE_SWITCH_EVERY) % UINT8
              IN (g.firstServer + serveBlock) % 2
    ELSE IF g.score[0] > g.score[1] THEN 1
         ELSE IF g.score[1] > g.score[0] THEN 0
         ELSE LET pointsBeforeDeuce == DEUCE_THRESHOLD * 2
                  blocksBeforeDeuce == pointsBeforeDeuce \div SERVE_SWITCH_EVERY
                  deucePoints == total - pointsBeforeDeuce
                  deuceBlocks == deucePoints \div DEUCE_SERVE_SWITCH
              IN (g.firstServer + blocksBeforeDeuce + deuceBlocks) % 2

\* calculateServingPlayer (637-655) leaving firstServer out of the serve block sum
calculateServingPlayer_Plain_noFirstServer(g) ==
    LET total == g.score[0] + g.score[1] IN
    IF ~(g.score[0] >= DEUCE_THRESHOLD /\ g.score[1] >= DEUCE_THRESHOLD)
    THEN ((total \div SERVE_SWITCH_EVERY) % UINT8) % 2
    ELSE (g.firstServer + (DEUCE_THRESHOLD * 2) \div SERVE_SWITCH_EVERY
            + (total - DEUCE_THRESHOLD * 2) \div DEUCE_SERVE_SWITCH) % 2

\* display.h 637-655
calculateServingPlayer_Plain(g) ==
    LET total == totalPoints(g) IN
    IF ~isDeuce(g)
    THEN LET serveBlock == (total \div SERVE_SWITCH_EVERY) % UINT8
         IN (g.firstServer + serveBlock) % 2
    ELSE LET pointsBeforeDeuce == DEUCE_THRESHOLD * 2
             blocksBeforeDeuce == pointsBeforeDeuce \div SERVE_SWITCH_EVERY
             deucePoints == total - pointsBeforeDeuce
             deuceBlocks == deucePoints \div DEUCE_SERVE_SWITCH
         IN (g.firstServer + blocksBeforeDeuce + deuceBlocks) % 2

calculateServingPlayer(def, g) ==
    IF def = "GP" THEN calculateServingPlayer_GP(g) ELSE calculateServingPlayer_Plain(g)

\* wonBy asking for a margin above WIN_BY
wonBy_strictMargin(g, p) ==
    IF g.score[p] >= POINTS_TO_WIN
    THEN IF g.score[0] >= DEUCE_THRESHOLD /\ g.score[1] >= DEUCE_THRESHOLD
         THEN g.score[p] - g.score[1 - p] > WIN_BY
         ELSE TRUE
    ELSE FALSE

\* one iteration of the loop of isGameWon: does player p decide the game?
wonBy(g, p) ==
    IF g.score[p] >= POINTS_TO_WIN
    THEN IF g.score[0] >= DEUCE_THRESHOLD /\ g.score[1] >= DEUCE_THRESHOLD
         THEN g.score[p] - g.score[1 - p] >= WIN_BY
         ELSE TRUE
    ELSE FALSE

isGameWon(g) == IF wonBy(g, 0) THEN TRUE ELSE wonBy(g, 1)

\* winner with the two players swapped
winner_swapped(g) ==
    IF ~(wonBy(g, 0) \/ wonBy(g, 1)) THEN -1
    ELSE IF g.score[0] > g.score[1] THEN 1 ELSE 0

winner(g) ==
    IF ~isGameWon(g) THEN -1
    ELSE IF g.score[0] > g.score[1] THEN 0 ELSE 1

\* addPoint without the test of the phase
addPoint_anyPhase(def, g, player, t) ==
    IF player > 1 THEN [g |-> g, ret |-> FALSE]
    ELSE
      LET g1 == [g EXCEPT !.score[player] = (@ + 1) % UINT8]
          newServer == IF def = "GP" THEN calculateServingPlayer_GP(g1)
                       ELSE calculateServingPlayer_Plain(g1)
          serveChanged == (newServer # g.servingPlayer)
          g2 == [g1 EXCEPT !.servingPlayer = newServer]
      IN IF wonBy(g2, 0) \/ wonBy(g2, 1)
         THEN [g |-> [g2 EXCEPT !.state = GAME_OVER, !.animStartTime = t],
               ret |-> FALSE]
         ELSE IF serveChanged
              THEN [g |-> [g2 EXCEPT !.state = SERVE_CHANGE, !.animStartTime = t],
                    ret |-> TRUE]
              ELSE [g |-> g2, ret |-> FALSE]

\* addPoint without the stamp of animStartTime at the winning point
addPoint_noWinStamp(def, g, player, t) ==
    IF g.state # PLAYING THEN [g |-> g, ret |-> FALSE]
    ELSE IF player > 1 THEN [g |-> g, ret |-> FALSE]
    ELSE
      LET g1 == [g EXCEPT !.score[player] = (@ + 1) % UINT8]
          newServer == calculateServingPlayer(def, g1)
          serveChanged == (newServer # g.servingPlayer)
          g2 == [g1 EXCEPT !.servingPlayer = newServer]
      IN IF isGameWon(g2)
         THEN [g |-> [g2 EXCEPT !.state = GAME_OVER], ret |-> FALSE]
         ELSE IF serveChanged
              THEN [g |-> [g2 EXCEPT !.state = SERVE_CHANGE, !.animStartTime = t],
                    ret |-> TRUE]
              ELSE [g |-> g2, ret |-> FALSE]

\* bool addPoint(uint8_t player), called at time t: the game afterwards and
\* the value returned
addPoint(def, g, player, t) ==
    IF g.state # PLAYING THEN [g |-> g, ret |-> FALSE]
    ELSE IF player > 1 THEN [g |-> g, ret |-> FALSE]
    ELSE
      LET g1 == [g EXCEPT !.score[player] = (@ + 1) % UINT8]
          newServer == calculateServingPlayer(def, g1)
          serveChanged == (newServer # g.servingPlayer)
          g2 == [g1 EXCEPT !.servingPlayer = newServer]
      IN IF isGameWon(g2)
         THEN [g |-> [g2 EXCEPT !.state = GAME_OVER, !.animStartTime = t],
               ret |-> FALSE]
         ELSE IF serveChanged
              THEN [g |-> [g2 EXCEPT !.state = SERVE_CHANGE, !.animStartTime = t],
                    ret |-> TRUE]
              ELSE [g |-> g2, ret |-> FALSE]

\* removePoint without the test score[player] == 0
removePoint_noZeroTest(def, g, player) ==
    IF player > 1 THEN g
    ELSE
      LET g1 == [g EXCEPT !.score[player] = (@ - 1) % UINT8]
          g2 == [g1 EXCEPT !.servingPlayer = calculateServingPlayer(def, g1)]
      IN IF g.state = GAME_OVER THEN [g2 EXCEPT !.state = PLAYING] ELSE g2

\* removePoint that leaves a finished game in GAME_OVER
removePoint_keepsPhase(def, g, player) ==
    IF player > 1 THEN g
    ELSE IF g.score[player] = 0 THEN g
    ELSE
      LET g1 == [g EXCEPT !.score[player] = @ - 1]
      IN [g1 EXCEPT !.servingPlayer = calculateServingPlayer(def, g1)]

\* removePoint that starts over with reset() when the last point is taken back
removePoint_resetAtZero(def, g, player) ==
    IF player > 1 THEN g
    ELSE IF g.score[player] = 0 THEN g
    ELSE
      LET g1 == [g EXCEPT !.score[player] = @ - 1]
          g2 == [g1 EXCEPT !.servingPlayer = calculateServingPlayer(def, g1)]
      IN IF g1.score[0] + g1.score[1] = 0 THEN reset(g)
         ELSE IF g.state = GAME_OVER THEN [g2 EXCEPT !.state = PLAYING] ELSE g2

\* void removePoint(uint8_t player)
removePoint(def, g, player) ==
    IF player > 1 THEN g
    ELSE IF g.score[player] = 0 THEN g
    ELSE
      LET g1 == [g EXCEPT !.score[player] = @ - 1]
          g2 == [g1 EXCEPT !.servingPlayer = calculateServingPlayer(def, g1)]
      IN IF g.state = GAME_OVER THEN [g2 EXCEPT !.state = PLAYING] ELSE g2

\* k further points for player p: score[player]++ (addPoint), k times
pointsAdded(g, p, k) == [g EXCEPT !.score[p] = (@ + k) % UINT8]

\* ------------------------------------------------------------------------
\* class ScoreDisplay: the completion tests of the animations
\* ------------------------------------------------------------------------
\* millis() - game.animStartTime in unsigned long arithmetic. The clock of the model
\* stays far below 2^32 ms and a stamp is never ahead of the clock (ClockOrder), so
\* the unsigned difference is the plain difference.
elapsedSince(g, t) == t - g.animStartTime

\* animateServeChange with the last frame counted as part of the animation
animateServeChange_lateFrame(g, t) ==
    LET elapsed == t - g.animStartTime
        frame == elapsed \div ANIMATION_SPEED_MS
    IN frame > totalFrames

\* bool animateServeChange(game), called at time t
animateServeChange(g, t) ==
    LET elapsed == elapsedSince(g, t)
        frame == elapsed \div ANIMATION_SPEED_MS
    IN frame >= totalFrames

\* animateVictory complete from VictoryMs on
animateVictory_atLeast(g, t) ==
    LET elapsed == t - g.animStartTime
    IN elapsed >= VictoryMs

\* bool animateVictory(game), called at time t
animateVictory(g, t) ==
    LET elapsed == elapsedSince(g, t)
    IN elapsed > VictoryMs

\* ------------------------------------------------------------------------
\* class ScoreDisplay: the frame buffer CRGB leds[TOTAL_LEDS] and what draws
\* into it. "EveryOther" is the class of display.h 11-217 (a point lights every
\* other score cell, 10-cell white trail), "Contiguous" the class of part_002
\* (a point lights the next score cell, 3-cell yellow trail).
\* ------------------------------------------------------------------------
DisplayDefs == {"EveryOther", "Contiguous"}

Cells == 0 .. TOTAL_LEDS - 1

\* a CRGB value is kept as the 24-bit number 0xRRGGBB
rgb(r, g, b) == r * 65536 + g * 256 + b
red(c) == c \div 65536
green(c) == (c \div 256) % 256
blue(c) == c % 256

\* the named colours of FastLED the program uses
Black == rgb(0, 0, 0)
Blue == rgb(0, 0, 255)
Green == rgb(0, 128, 0)
Yellow == rgb(255, 255, 0)
OrangeRed == rgb(255, 69, 0)
Red == rgb(255, 0, 0)
White == rgb(255, 255, 255)

SCORE_COLORS == <<Blue, Green, Yellow, OrangeRed, Red>>
SERVE_COLOR == White
SERVE_ANIM_COLOR == White
DEUCE_ADV_COLOR == Red
BG_COLOR == Black

\* CRGB::nscale8(scale): each channel times (scale + 1), shifted right by 8
nscale8(c, scale) ==
    rgb((red(c) * (scale + 1)) \div 256,
        (green(c) * (scale + 1)) \div 256,
        (blue(c) * (scale + 1)) \div 256)

\* the quotient of C's integer division, truncated towards zero (b > 0)
cdiv(a, b) == IF a >= 0 THEN a \div b ELSE -((-a) \div b)

\* long map(x, in_min, in_max, out_min, out_max) of the Arduino core
map(x, in_min, in_max, out_min, out_max) ==
    cdiv((x - in_min) * (out_max - out_min), in_max - in_min) + out_min

\* the values beatsin8(60 / SERVE_PULSE_SPEED, 40, 255) is sampled at
ServePulses == {p \in ServePulseMin .. ServePulseMax : (p - ServePulseMin) % PulseStep = 0}

\* the values beatsin8(30, 80, 255) is sampled at
DeucePulses == {p \in DeucePulseMin .. ServePulseMax : (p - DeucePulseMin) % PulseStep = 0}

\* only the renderScore of part_002 reads beatsin8(30, 80, 255)
deucePulseRead(disp, dpulse) == disp = "EveryOther" => dpulse = DeucePulseMin

\* the first cell past each player's score cells
p1ServeIdx == SCORE_LEDS_PER_SIDE
p2ServeIdx == TOTAL_LEDS - SCORE_LEDS_PER_SIDE - 1

\* clearAll(): fill_solid(leds, TOTAL_LEDS, BG_COLOR)
clearAll == [i \in Cells |-> BG_COLOR]

\* colorForPoint that counts the bands from point 0
colorForPoint_zeroBased(pointNum) ==
    IF pointNum = 0 THEN BG_COLOR
    ELSE LET groupIndex == (pointNum \div 5) % UINT8
         IN SCORE_COLORS[(IF groupIndex >= NUM_SCORE_COLORS
                          THEN NUM_SCORE_COLORS - 1 ELSE groupIndex) + 1]

\* CRGB colorForPoint(uint8_t pointNum); SCORE_COLORS[k] of the source is
\* SCORE_COLORS[k + 1] here
colorForPoint(pointNum) ==
    IF pointNum = 0 THEN BG_COLOR
    ELSE LET groupIndex == ((pointNum - 1) \div 5) % UINT8
         IN SCORE_COLORS[(IF groupIndex >= NUM_SCORE_COLORS
                          THEN NUM_SCORE_COLORS - 1 ELSE groupIndex) + 1]

\* renderScore(game) on the buffer buf; dpulse is the value of
\* beatsin8(30, 80, 255) read by the class of part_002
renderScore(disp, buf, g, dpulse) ==
    LET lead0 == isDeuce(g) /\ g.score[0] > g.score[1]
        lead1 == isDeuce(g) /\ g.score[1] > g.score[0]
    IN IF disp = "EveryOther"
       THEN [i \in Cells |->
               IF lead0 /\ i = SCORE_LEDS_PER_SIDE + 1 THEN DEUCE_ADV_COLOR
               ELSE IF lead1 /\ i = TOTAL_LEDS - SCORE_LEDS_PER_SIDE - 2 THEN DEUCE_ADV_COLOR
               ELSE IF i < SCORE_LEDS_PER_SIDE
                    THEN (IF i % 2 = 0 /\ i \div 2 < g.score[0]
                          THEN colorForPoint(i \div 2 + 1) ELSE BG_COLOR)
               ELSE IF TOTAL_LEDS - 1 - i < SCORE_LEDS_PER_SIDE
                    THEN (LET j == TOTAL_LEDS - 1 - i
                          IN IF j % 2 = 0 /\ j \div 2 < g.score[1]
                             THEN colorForPoint(j \div 2 + 1) ELSE BG_COLOR)
               ELSE buf[i]]
       ELSE [i \in Cells |->
               IF lead0 /\ i = SCORE_LEDS_PER_SIDE - 1 THEN nscale8(Red, dpulse)
               ELSE IF lead1 /\ i = TOTAL_LEDS - SCORE_LEDS_PER_SIDE THEN nscale8(Red, dpulse)
               ELSE IF i < SCORE_LEDS_PER_SIDE
                    THEN (IF i < g.score[0] THEN colorForPoint(i + 1) ELSE BG_COLOR)
               ELSE IF TOTAL_LEDS - 1 - i < SCORE_LEDS_PER_SIDE
                    THEN (LET j == TOTAL_LEDS - 1 - i
                          IN IF j < g.score[1] THEN colorForPoint(j + 1) ELSE BG_COLOR)
               ELSE buf[i]]

\* renderServeIndicator with the indicator cells of the two players exchanged
renderServeIndicator_swapped(buf, g, pulse) ==
    [i \in Cells |->
       IF i = p1ServeIdx
       THEN (IF g.servingPlayer = 1 THEN nscale8(SERVE_COLOR, pulse) ELSE BG_COLOR)
       ELSE IF i = p2ServeIdx
       THEN (IF g.servingPlayer = 0 THEN nscale8(SERVE_COLOR, pulse) ELSE BG_COLOR)
       ELSE buf[i]]

\* renderServeIndicator(game) on the buffer buf; pulse is the value of
\* beatsin8(60 / SERVE_PULSE_SPEED, 40, 255)
renderServeIndicator(buf, g, pulse) ==
    [i \in Cells |->
       IF i = p1ServeIdx
       THEN (IF g.servingPlayer = 0 THEN nscale8(SERVE_COLOR, pulse) ELSE BG_COLOR)
       ELSE IF i = p2ServeIdx
       THEN (IF g.servingPlayer = 1 THEN nscale8(SERVE_COLOR, pulse) ELSE BG_COLOR)
       ELSE buf[i]]

\* renderPlaying(game)
renderPlaying(disp, g, pulse, dpulse) ==
    renderServeIndicator(renderScore(disp, clearAll, g, dpulse), g, pulse)

\* renderIdle(game)
renderIdle(g, pulse) == renderServeIndicator(clearAll, g, pulse)

\* renderGameOver(game) of display.h 191-205
renderGameOver(disp, g, dpulse) ==
    LET base == renderScore(disp, clearAll, g, dpulse)
        w == winner(g)
        loser == 1 - w
    IN IF w >= 0
       THEN [i \in Cells |->
               IF (loser = 0 /\ i < SCORE_LEDS_PER_SIDE)
                    \/ (loser = 1 /\ TOTAL_LEDS - 1 - i < SCORE_LEDS_PER_SIDE)
               THEN nscale8(base[i], LOSER_DIM) ELSE base[i]]
       ELSE base

\* the sweep of animateServeChange run from the new server's indicator to the
\* old server's
sweepPos_reversed(disp, g, frame) ==
    IF disp = "EveryOther"
    THEN LET startIdx == IF g.servingPlayer = 1 THEN p2ServeIdx ELSE p1ServeIdx
             endIdx == IF g.servingPlayer = 1 THEN p1ServeIdx ELSE p2ServeIdx
         IN map(frame, 0, totalFrames - 1, startIdx, endIdx)
    ELSE LET gapSize == p2ServeIdx - p1ServeIdx + 1
         IN p1ServeIdx + (IF frame < totalFrames \div 2
                          THEN map(frame, 0, totalFrames \div 2, gapSize - 1, 0)
                          ELSE map(frame, totalFrames \div 2, totalFrames, 0, gapSize - 1))

\* animateServeChange: the cell of the head of the sweep on frame
\* (sweepPos in display.h 111-113, gapStart + sweepPos in part_002 115-130)
sweepPos(disp, g, frame) ==
    IF disp = "EveryOther"
    THEN LET startIdx == IF g.servingPlayer = 1 THEN p1ServeIdx ELSE p2ServeIdx
             endIdx == IF g.servingPlayer = 1 THEN p2ServeIdx ELSE p1ServeIdx
         IN map(frame, 0, totalFrames - 1, startIdx, endIdx)
    ELSE LET gapSize == p2ServeIdx - p1ServeIdx + 1
         IN p1ServeIdx + (IF frame < totalFrames \div 2
                          THEN map(frame, 0, totalFrames \div 2, 0, gapSize - 1)
                          ELSE map(frame, totalFrames \div 2, totalFrames, gapSize - 1, 0))

\* animateServeChange: the step from the head to the next trail cell
trailDir(disp, g) ==
    IF disp = "EveryOther"
    THEN (IF g.servingPlayer = 1 THEN -1 ELSE 1)
    ELSE -1

\* animateServeChange: the cells the trail loop writes on frame
trailCells(disp, g, frame) ==
    IF disp = "EveryOther"
    THEN {idx \in {sweepPos(disp, g, frame) + t * trailDir(disp, g) : t \in 0 .. 9} :
            idx >= 0 /\ idx < TOTAL_LEDS}
    ELSE {idx \in {sweepPos(disp, g, frame) - t : t \in 0 .. 2} :
            idx >= p1ServeIdx /\ idx <= p2ServeIdx}

\* animateServeChange(game) on a frame below totalFrames: the buffer after it
animateServeChangeLeds(disp, buf, g, frame, pulse, dpulse) ==
    LET head == sweepPos(disp, g, frame)
        dir == trailDir(disp, g)
        trail == trailCells(disp, g, frame)
        t(i) == (i - head) * dir
    IN IF disp = "EveryOther"
       THEN LET base == renderScore(disp, clearAll, g, dpulse)
            IN [i \in Cells |->
                  IF i \in trail
                  THEN nscale8(SERVE_ANIM_COLOR, 255 - t(i) * 25) ELSE base[i]]
       ELSE LET base == renderScore(disp, buf, g, dpulse)
                swept == [i \in Cells |->
                            IF i \in trail
                            THEN nscale8(Yellow, 255 - t(i) * 80) ELSE base[i]]
            IN IF (frame \div 3) % 2 = 0
               THEN renderServeIndicator(swept, g, pulse) ELSE swept

\* ------------------------------------------------------------------------
\* The handlers of main.cpp
\* ------------------------------------------------------------------------
\* ButtonState::begin
begin ==
    [lastState |-> HIGH, currentState |-> HIGH, lastPressTime |-> 0, pressed |-> FALSE]

\* ButtonState::update without the statement pressed = false at its head
update_stickyPress(b, level, t) ==
    LET accepted == /\ level = LOW
                    /\ b.lastState = HIGH
                    /\ t - b.lastPressTime > DEBOUNCE_MS
    IN [lastState |-> level,
        currentState |-> level,
        lastPressTime |-> IF accepted THEN t ELSE b.lastPressTime,
        pressed |-> (b.pressed \/ accepted)]

\* ButtonState::update without the test lastState == HIGH of the falling edge
update_levelPress(b, level, t) ==
    LET accepted == /\ level = LOW
                    /\ t - b.lastPressTime > DEBOUNCE_MS
    IN [lastState |-> level,
        currentState |-> level,
        lastPressTime |-> IF accepted THEN t ELSE b.lastPressTime,
        pressed |-> accepted]

\* ButtonState::update at time t, digitalRead(pin) returning level
update(b, level, t) ==
    LET accepted == /\ level = LOW
                    /\ b.lastState = HIGH
                    /\ t - b.lastPressTime > DEBOUNCE_MS
    IN [lastState |-> level,
        currentState |-> level,
        lastPressTime |-> IF accepted THEN t ELSE b.lastPressTime,
        pressed |-> accepted]

\* ButtonState::isHeld
isHeld(b) == b.currentState = LOW

\* the test of loop() on a joint hold begun at time since, made at time t, with
\* DEBOUNCE_MS in the place of LONG_PRESS_MS
longPressDue_debounce(since, t) == t - since >= DEBOUNCE_MS

\* millis() - bothHeldSince >= LONG_PRESS_MS
longPressDue(since, t) == t - since >= LONG_PRESS_MS

\* handlePlaying(): the points of the two buttons, player 0 first
handlePlaying(def, g, b1, b2, trig, t) ==
    IF trig THEN g
    ELSE LET g1 == IF b1.pressed THEN addPoint(def, g, 0, t).g ELSE g
         IN IF b2.pressed THEN addPoint(def, g1, 1, t).g ELSE g1

\* the new game without the assignment game.servingPlayer = game.firstServer
newGame_staleServer(mdef, g) ==
    LET fs == IF mdef = "Alternate" THEN 1 - g.firstServer ELSE 1 - winner(g)
    IN [reset(g) EXCEPT !.firstServer = fs]

\* the new game with the first serve given to the winner in the second policy
newGame_winnerFirst(mdef, g) ==
    LET fs == IF mdef = "Alternate" THEN 1 - g.firstServer ELSE winner(g)
    IN [reset(g) EXCEPT !.firstServer = fs, !.servingPlayer = fs]

\* the new game of handleGameOver (main.cpp 157-161, part_000 381-385)
newGame(mdef, g) ==
    LET fs == IF mdef = "Alternate" THEN 1 - g.firstServer ELSE 1 - winner(g)
    IN [reset(g) EXCEPT !.firstServer = fs, !.servingPlayer = fs]

TypeOK ==
    /\ game.score \in [Players -> 0 .. UINT8 - 1]
    /\ game.state \in {PLAYING, SERVE_CHANGE, GAME_OVER}
    /\ now \in Nat
    /\ gameDef \in GameDefs
    /\ mainDef \in MainDefs
    /\ undos \in 0 .. MaxUndo
    /\ startupRuns \in Nat \ {0}
    /\ displayDef \in DisplayDefs
    /\ DOMAIN leds = Cells

\* a stamp is never ahead of the clock
ClockOrder == game.animStartTime <= now

\* after setup(): game.reset() has run
InitBoot ==
    /\ game = reset([score |-> <<>>])
    /\ now = 0

\* A game in progress at the tied score s, every point of which was played in
\* turn (player 0, player 1, player 0, ...): no player is ever two points ahead
\* in deuce, so the game is still PLAYING; the first server is that of a first
\* game (0) or of a later one (1); the serving player is the one addPoint last
\* computed, the last stamp lies StartStamp ms after boot and its animation is over.
midGame(def, s, fs) ==
    LET g == [score |-> [p \in Players |-> s],
              servingPlayer |-> 0,
              firstServer |-> fs,
              state |-> PLAYING,
              animStartTime |-> StartStamp]
    IN [g EXCEPT !.servingPlayer = calculateServingPlayer(def, g)]

InitMid ==
    /\ \E s \in {MidScore, LateScore}, fs \in Players : game = midGame(gameDef, s, fs)
    /\ now = StartStamp + totalFrames * ANIMATION_SPEED_MS

\* after setup(): btn1.begin(), btn2.begin(), the one display.animateStartup()
\* and the initializers of the globals
InitIo ==
    /\ btn1 = begin
    /\ btn2 = begin
    /\ bothHeldSince = 0
    /\ resetTriggered = FALSE
    /\ startupRuns = 1
    /\ displayDef = "EveryOther"
    /\ leds = clearAll

Init ==
    /\ gameDef \in GameDefs
    /\ mainDef \in MainDefs
    /\ InitBoot \/ InitMid
    /\ InitIo
    /\ undos = 0
    /\ last = [op |-> "setup", player |-> 0, ret |-> FALSE, from |-> PLAYING]

\* the end of the modelled time of a run
TimeLimit == IF now < StartStamp THEN MaxTime ELSE StartStamp + MaxTime

\* Time passes while an animation runs (the clock is read only by the animations
\* and by the new-game gate) and nothing else happens.
Tick ==
    /\ \/ game.state = SERVE_CHANGE /\ ~animateServeChange(game, now)
       \/ game.state = GAME_OVER /\ ~animateVictory(game, now)
    /\ now + TickMs <= TimeLimit
    /\ now' = now + TickMs
    /\ UNCHANGED <<game, gameDef, mainDef, undos, ioVars, last>>

\* a button press reaches game.addPoint(player)
AddPoint(player) ==
    LET r == addPoint(gameDef, game, player, now) IN
    /\ game' = r.g
    /\ last' = [op |-> "addPoint", player |-> player, ret |-> r.ret, from |-> game.state]
    /\ UNCHANGED <<now, gameDef, mainDef, undos, ioVars>>

\* the correction input reaches game.removePoint(player)
RemovePoint(player) ==
    /\ undos < MaxUndo
    /\ game' = removePoint(gameDef, game, player)
    /\ undos' = undos + 1
    /\ last' = [op |-> "removePoint", player |-> player, ret |-> FALSE, from |-> game.state]
    /\ UNCHANGED <<now, gameDef, mainDef, ioVars>>

\* handleServeChange() without the assignment game.state = GameState::PLAYING
HandleServeChange_stay ==
    /\ game.state = SERVE_CHANGE
    /\ LET done == animateServeChange(game, now) IN
       /\ game' = game
       /\ last' = [op |-> "handleServeChange", player |-> 0, ret |-> done, from |-> game.state]
    /\ UNCHANGED <<now, gameDef, mainDef, undos, ioVars>>

\* handleServeChange(): one tick in state SERVE_CHANGE
HandleServeChange ==
    /\ game.state = SERVE_CHANGE
    /\ LET done == animateServeChange(game, now) IN
       /\ game' = IF done THEN [game EXCEPT !.state = PLAYING] ELSE game
       /\ last' = [op |-> "handleServeChange", player |-> 0, ret |-> done, from |-> game.state]
    /\ UNCHANGED <<now, gameDef, mainDef, undos, ioVars>>

\* handleGameOver(): one tick in state GAME_OVER; pressed = btn1.pressed || btn2.pressed
HandleGameOver(pressed) ==
    /\ game.state = GAME_OVER
    /\ LET elapsed == elapsedSince(game, now)
           start == pressed /\ elapsed > NewGameGateMs
       IN /\ game' = IF start THEN newGame(mainDef, game) ELSE game
          /\ now' = IF start THEN now + NewGameDelayMs ELSE now
          /\ undos' = IF start THEN 0 ELSE undos
          /\ last' = [op |-> "handleGameOver", player |-> 0, ret |-> start, from |-> game.state]
    /\ UNCHANGED <<gameDef, mainDef, ioVars>>

\* loop(): both buttons held for LONG_PRESS_MS: game.reset(), then the blocking
\* startup animation. A point is made by a button going from HIGH to LOW, so a
\* joint hold begins no earlier than the point that stamped animStartTime: the
\* hold is not complete during an animation younger than LONG_PRESS_MS
\* (ResetOnlyAfterHold states this of the polling loop).
LongPressReset ==
    /\ now + ResetBlockMs <= TimeLimit
    /\ game.state # PLAYING => longPressDue(game.animStartTime, now)
    /\ game' = reset(game)
    /\ now' = now + ResetBlockMs
    /\ undos' = 0
    /\ startupRuns' = startupRuns + 1
    /\ last' = [op |-> "reset", player |-> 0, ret |-> FALSE, from |-> game.state]
    /\ UNCHANGED <<gameDef, mainDef, btn1, btn2, bothHeldSince, resetTriggered, displayDef, leds>>

Next ==
    \/ Tick
    \/ \E player \in PlayerArgs : AddPoint(player)
    \/ \E player \in PlayerArgs : RemovePoint(player)
    \/ HandleServeChange
    \/ \E pressed \in BOOLEAN : HandleGameOver(pressed)
    \/ LongPressReset

Spec == Init /\ [][Next]_vars

\* normal play: the primary control surface, without the correction input
NextPlay ==
    \/ Tick
    \/ \E player \in PlayerArgs : AddPoint(player)
    \/ HandleServeChange
    \/ \E pressed \in BOOLEAN : HandleGameOver(pressed)
    \/ LongPressReset

SpecPlay == Init /\ [][NextPlay]_vars

\* ------------------------------------------------------------------------
\* The ticks of handlePlaying with the presses both buttons registered
\* ------------------------------------------------------------------------
\* handlePlaying(): one tick in state PLAYING in which button 1 registered a
\* press iff press1 and button 2 iff press2
PressTick(press1, press2) ==
    /\ game.state = PLAYING
    /\ game' = handlePlaying(gameDef, game, [btn1 EXCEPT !.pressed = press1],
                             [btn2 EXCEPT !.pressed = press2], resetTriggered, now)
    /\ last' = [op |-> "handlePlaying", player |-> 0, ret |-> FALSE, from |-> game.state,
                press |-> <<press1, press2>>]
    /\ UNCHANGED <<now, gameDef, mainDef, undos, ioVars>>

NextPress ==
    \/ Tick
    \/ \E press1 \in BOOLEAN, press2 \in BOOLEAN : PressTick(press1, press2)
    \/ HandleServeChange

SpecPress == Init /\ [][NextPress]_vars

\* ------------------------------------------------------------------------
\* The loop that never stops: loop() is called again for ever and millis()
\* advances in every iteration (delay(16)). The modelled time ends at
\* TimeLimit, so a point is taken only while the serve-change animation it
\* may start still fits before it.
\* ------------------------------------------------------------------------
\* a button press reaches game.addPoint(player) early enough in the modelled time
LivePoint(player) ==
    /\ now + TickMs <= TimeLimit
    /\ AddPoint(player)

NextLive ==
    \/ Tick
    \/ \E player \in Players : LivePoint(player)
    \/ HandleServeChange
    \/ \E pressed \in BOOLEAN : HandleGameOver(pressed)
    \/ LongPressReset

\* weak fairness of the clock and of the handler of SERVE_CHANGE: the Arduino
\* core calls loop() for ever, every call dispatches on game.state and ends
\* with delay(16)
SpecLive ==
    /\ Init
    /\ [][NextLive]_vars
    /\ WF_vars(Tick)
    /\ WF_vars(HandleServeChange)

\* ------------------------------------------------------------------------
\* The polling loop: loop() of main.cpp with its buttons
\* ------------------------------------------------------------------------
\* a game in progress at the score [a,b], its last animation over
loopGame(def, a, b, fs) ==
    LET g == [score |-> [p \in Players |-> IF p = 0 THEN a ELSE b],
              servingPlayer |-> 0,
              firstServer |-> fs,
              state |-> PLAYING,
              animStartTime |-> StartStamp]
    IN [g EXCEPT !.servingPlayer = calculateServingPlayer(def, g)]

\* the time the polling loop is followed from
LoopStart == StartStamp + totalFrames * ANIMATION_SPEED_MS

\* The loop is running, both buttons are released and were last pressed at the
\* last stamp; the game is one point before a serve change ([LoopScore,LoopScore])
\* or one point before a win ([POINTS_TO_WIN - 1, MidScore]).
InitLoop ==
    /\ gameDef \in GameDefs
    /\ mainDef \in MainDefs
    /\ \E fs \in Players :
          \/ game = loopGame(gameDef, LoopScore, LoopScore, fs)
          \/ game = loopGame(gameDef, POINTS_TO_WIN - 1, MidScore, fs)
    /\ now = LoopStart
    /\ btn1 = [begin EXCEPT !.lastPressTime = StartStamp]
    /\ btn2 = [begin EXCEPT !.lastPressTime = StartStamp]
    /\ bothHeldSince = 0
    /\ resetTriggered = FALSE
    /\ startupRuns = 1
    /\ displayDef = "EveryOther"
    /\ leds = clearAll
    /\ undos = 0
    /\ last = [op |-> "setup", player |-> 0, ret |-> FALSE, from |-> PLAYING]

\* one iteration of loop() takes LoopDelayMs and the time of its work
LoopPeriod == LoopDelayMs + FrameWorkMs

\* the iterations in which the pins may change level
inputSlot(t) ==
    /\ t <= LoopStart + InputWindowMs
    /\ ((t - LoopStart) \div LoopPeriod) % InputEvery = 0

\* loop(): one iteration at time now, digitalRead returning in1 and in2
Loop(in1, in2) ==
    /\ now + LoopPeriod <= LoopStart + MaxLoopTime
    /\ inputSlot(now) \/ (in1 = btn1.currentState /\ in2 = btn2.currentState)
    /\ LET b1 == update(btn1, in1, now)
           b2 == update(btn2, in2, now)
           both == isHeld(b1) /\ isHeld(b2)
           fire == /\ both
                   /\ bothHeldSince # 0
                   /\ longPressDue(bothHeldSince, now)
                   /\ ~resetTriggered
           trig == IF both THEN (resetTriggered \/ fire) ELSE FALSE
           \* game.reset(), delay(200), animateStartup()
           g1 == IF fire THEN reset(game) ELSE game
           t1 == IF fire THEN now + ResetBlockMs ELSE now
           done == CASE g1.state = SERVE_CHANGE -> animateServeChange(g1, t1)
                     [] g1.state = GAME_OVER -> animateVictory(g1, t1)
                     [] OTHER -> FALSE
           start == /\ g1.state = GAME_OVER
                    /\ b1.pressed \/ b2.pressed
                    /\ elapsedSince(g1, t1) > NewGameGateMs
           g2 == CASE g1.state = PLAYING -> handlePlaying(gameDef, g1, b1, b2, trig, t1)
                   [] g1.state = SERVE_CHANGE ->
                        (IF done THEN [g1 EXCEPT !.state = PLAYING] ELSE g1)
                   [] OTHER -> (IF start THEN newGame(mainDef, g1) ELSE g1)
           t2 == IF start THEN t1 + NewGameDelayMs ELSE t1
       IN /\ btn1' = b1
          /\ btn2' = b2
          /\ bothHeldSince' = IF both
                              THEN (IF bothHeldSince = 0 THEN now ELSE bothHeldSince)
                              ELSE 0
          /\ resetTriggered' = trig
          /\ startupRuns' = IF fire THEN startupRuns + 1 ELSE startupRuns
          /\ game' = g2
          /\ now' = t2 + LoopPeriod
          /\ last' = [op |-> "loop", player |-> 0, ret |-> done, from |-> game.state]
    /\ UNCHANGED <<gameDef, mainDef, undos, displayDef, leds>>

NextLoop == \E in1 \in Levels, in2 \in Levels : Loop(in1, in2)

SpecLoop == InitLoop /\ [][NextLoop]_vars

\* ------------------------------------------------------------------------
\* The const member functions of PingPongGame, applied to every score pair
\* ------------------------------------------------------------------------
\* the scores of the inputs: 0 .. MaxScore and the last values of a uint8_t
FnScores == (0 .. MaxScore) \cup ((UINT8 - 3) .. (UINT8 - 1))

InitFn ==
    /\ gameDef \in GameDefs
    /\ mainDef = "Alternate"
    /\ \E s0 \in FnScores, s1 \in FnScores, fs \in Players :
          game = [score |-> [p \in Players |-> IF p = 0 THEN s0 ELSE s1],
                  servingPlayer |-> fs,
                  firstServer |-> fs,
                  state |-> PLAYING,
                  animStartTime |-> 0]
    /\ now = 0
    /\ InitIo
    /\ undos = 0
    /\ last = [op |-> "setup", player |-> 0, ret |-> FALSE, from |-> PLAYING]

CallIsDeuce ==
    /\ last' = [op |-> "isDeuce", player |-> 0, ret |-> isDeuce(game), from |-> game.state]
    /\ UNCHANGED <<game, now, gameDef, mainDef, undos, ioVars>>

CallIsGameWon ==
    /\ last' = [op |-> "isGameWon", player |-> 0, ret |-> isGameWon(game), from |-> game.state]
    /\ UNCHANGED <<game, now, gameDef, mainDef, undos, ioVars>>

CallWinner ==
    /\ last' = [op |-> "winner", player |-> 0, ret |-> winner(game), from |-> game.state]
    /\ UNCHANGED <<game, now, gameDef, mainDef, undos, ioVars>>

CallCalculateServingPlayer ==
    /\ last' = [op |-> "calculateServingPlayer", player |-> 0,
                ret |-> calculateServingPlayer(gameDef, game), from |-> game.state]
    /\ UNCHANGED <<game, now, gameDef, mainDef, undos, ioVars>>

NextFn ==
    \/ CallIsDeuce
    \/ CallIsGameWon
    \/ CallWinner
    \/ CallCalculateServingPlayer

SpecFn == InitFn /\ [][NextFn]_vars

\* ------------------------------------------------------------------------
\* The frames: the handlers of main.cpp together with what they draw
\* ------------------------------------------------------------------------
\* the scores a run of the frames passes through
DrawScores == (0 .. DrawSpan) \cup (MidScore .. MidScore + DrawSpan + 1)

\* after setup() or in the middle of a game, the frame of handlePlaying in the
\* buffer; part_000 calls renderGameOver, which the class of part_002 lacks
InitDraw ==
    /\ gameDef \in GameDefs
    /\ mainDef \in MainDefs
    /\ displayDef \in DisplayDefs
    /\ ~(mainDef = "LoserFirst" /\ displayDef = "Contiguous")
    /\ \E a \in {0, MidScore}, fs \in Players :
          game = IF a = 0
                 THEN [reset(game) EXCEPT !.firstServer = fs, !.servingPlayer = fs]
                 ELSE loopGame(gameDef, a, a, fs)
    /\ now = LoopStart
    /\ leds = IF totalPoints(game) = 0
              THEN renderIdle(game, ServePulseMin)
              ELSE renderPlaying(displayDef, game, ServePulseMin, DeucePulseMin)
    /\ btn1 = begin
    /\ btn2 = begin
    /\ bothHeldSince = 0
    /\ resetTriggered = FALSE
    /\ startupRuns = 1
    /\ undos = 0
    /\ last = [op |-> "setup", player |-> 0, ret |-> FALSE, from |-> PLAYING]

\* colorForPoint(n), as renderScore calls it, before the first frame is drawn
CallColorForPoint(n) ==
    /\ last.op = "setup"
    /\ last' = [op |-> "colorForPoint", player |-> n, ret |-> colorForPoint(n),
                from |-> game.state]
    /\ UNCHANGED <<game, now, gameDef, mainDef, undos, ioVars>>

\* handlePlaying(): the points of the buttons that registered a press, then
\* renderIdle or renderPlaying
DrawPlaying(press1, press2, pulse, dpulse) ==
    /\ game.state = PLAYING
    /\ deucePulseRead(displayDef, dpulse)
    /\ LET g == handlePlaying(gameDef, game, [btn1 EXCEPT !.pressed = press1],
                              [btn2 EXCEPT !.pressed = press2], FALSE, now)
       IN /\ \A p \in Players : g.score[p] \in DrawScores
          /\ game' = g
          /\ leds' = IF totalPoints(g) = 0
                     THEN renderIdle(g, pulse)
                     ELSE renderPlaying(displayDef, g, pulse, dpulse)
          /\ last' = [op |-> IF totalPoints(g) = 0 THEN "renderIdle" ELSE "renderPlaying",
                      player |-> 0, ret |-> FALSE, from |-> game.state]
    /\ UNCHANGED <<now, gameDef, mainDef, undos, btn1, btn2, bothHeldSince,
                   resetTriggered, startupRuns, displayDef>>

\* handleServeChange(): one iteration of the loop in SERVE_CHANGE with the
\* frame animateServeChange draws; last records the frame number, the head of
\* the sweep and the cells of the trail
DrawServeChange(pulse, dpulse) ==
    /\ game.state = SERVE_CHANGE
    /\ deucePulseRead(displayDef, dpulse)
    /\ LET done == animateServeChange(game, now)
           frame == elapsedSince(game, now) \div ANIMATION_SPEED_MS
       IN /\ game' = IF done THEN [game EXCEPT !.state = PLAYING] ELSE game
          /\ leds' = IF done THEN leds
                     ELSE animateServeChangeLeds(displayDef, leds, game, frame, pulse, dpulse)
          /\ last' = [op |-> "animateServeChange", player |-> frame, ret |-> done,
                      from |-> game.state,
                      head |-> sweepPos(displayDef, game, frame),
                      trail |-> IF done THEN {} ELSE trailCells(displayDef, game, frame)]
    /\ now' = now + LoopPeriod
    /\ UNCHANGED <<gameDef, mainDef, undos, btn1, btn2, bothHeldSince,
                   resetTriggered, startupRuns, displayDef>>

\* handleGameOver() while animateVictory draws its own frames: the iterations
\* up to the completion, taken together. The frames of the victory animation
\* are not modelled; the render that follows begins with clearAll().
RunVictory ==
    /\ game.state = GAME_OVER
    /\ ~animateVictory(game, now)
    /\ now' = game.animStartTime + VictoryMs + 1
    /\ last' = [op |-> "animateVictory", player |-> 0, ret |-> FALSE, from |-> game.state]
    /\ UNCHANGED <<game, gameDef, mainDef, undos, ioVars>>

\* handleGameOver() once animateVictory reports completion, no button pressed:
\* main.cpp 144 calls renderPlaying, part_000 368 calls renderGameOver
DrawGameOver(pulse, dpulse) ==
    /\ game.state = GAME_OVER
    /\ animateVictory(game, now)
    /\ deucePulseRead(displayDef, dpulse)
    /\ leds' = IF mainDef = "Alternate"
               THEN renderPlaying(displayDef, game, pulse, dpulse)
               ELSE renderGameOver(displayDef, game, dpulse)
    /\ last' = [op |-> "handleGameOver", player |-> 0, ret |-> TRUE, from |-> game.state]
    /\ UNCHANGED <<game, now, gameDef, mainDef, undos, btn1, btn2, bothHeldSince,
                   resetTriggered, startupRuns, displayDef>>

NextDraw ==
    \/ \E n \in 0 .. UINT8 - 1 : CallColorForPoint(n)
    \/ \E press1 \in BOOLEAN, press2 \in BOOLEAN, pulse \in ServePulses, dpulse \in DeucePulses :
          DrawPlaying(press1, press2, pulse, dpulse)
    \/ \E pulse \in ServePulses, dpulse \in DeucePulses : DrawServeChange(pulse, dpulse)
    \/ RunVictory
    \/ \E pulse \in ServePulses, dpulse \in DeucePulses : DrawGameOver(pulse, dpulse)

SpecDraw == InitDraw /\ [][NextDraw]_vars

\* ------------------------------------------------------------------------
\* The rules as the specification states them
\* ------------------------------------------------------------------------
Score(a, b) == [p \in Players |-> IF p = 0 THEN a ELSE b]

BothAtDeuce(g) == \A p \in Players : g.score[p] >= DEUCE_THRESHOLD

\* player p has the points to win and, in deuce, the margin
WinCondition(g, p) ==
    /\ g.score[p] >= POINTS_TO_WIN
    /\ BothAtDeuce(g) => g.score[p] - g.score[1 - p] >= WIN_BY

\* serve rotation outside deuce: one serve block every SERVE_SWITCH_EVERY points
BlockServer(g) ==
    (g.firstServer + (g.score[0] + g.score[1]) \div SERVE_SWITCH_EVERY) % 2

\* serve rotation in deuce
DeuceServer(g) ==
    (g.firstServer
       + (2 * DEUCE_THRESHOLD) \div SERVE_SWITCH_EVERY
       + (g.score[0] + g.score[1] - 2 * DEUCE_THRESHOLD) \div DEUCE_SERVE_SWITCH) % 2

\* the phase and the return value addPoint decides on, given the game before
\* (g) and after (h) the point
AddPointOutcome(g, h, ret) ==
    IF isGameWon(h) THEN h.state = GAME_OVER /\ ret = FALSE
    ELSE IF h.servingPlayer # g.servingPlayer
         THEN h.state = SERVE_CHANGE /\ ret = TRUE
         ELSE h.state = PLAYING /\ ret = FALSE

\* ------------------------------------------------------------------------
\* Claims
\* ------------------------------------------------------------------------

\* C1: every addPoint(player) made in PLAYING with a valid player raises
\* score[player] by 1 and recomputes servingPlayer; the phase becomes GAME_OVER
\* (returning false) iff the game is now won, else SERVE_CHANGE (returning true)
\* iff the server changed, else stays PLAYING (returning false).
C1_AddPointContract ==
    [][\A p \in Players :
         (game.state = PLAYING /\ AddPoint(p)) =>
            /\ game'.score[p] = game.score[p] + 1
            /\ game'.score[1 - p] = game.score[1 - p]
            /\ game'.servingPlayer = calculateServingPlayer(gameDef, game')
            /\ AddPointOutcome(game, game', last'.ret)]_vars

\* What addPoint does keep: the same contract with the increment taken in the
\* 8 bits of the score.
AddPointContractMod256 ==
    [][\A p \in Players :
         (game.state = PLAYING /\ AddPoint(p)) =>
            /\ game'.score[p] = (game.score[p] + 1) % UINT8
            /\ game'.score[1 - p] = game.score[1 - p]
            /\ game'.servingPlayer = calculateServingPlayer(gameDef, game')
            /\ AddPointOutcome(game, game', last'.ret)]_vars

\* C2: in every reachable state the phase is GAME_OVER iff isGameWon() holds.
C2_GameOverIffWon == (game.state = GAME_OVER) <=> isGameWon(game)

\* What does hold: a game that is over is won.
GameOverIsWon == (game.state = GAME_OVER) => isGameWon(game)

\* C3: between operations servingPlayer equals calculateServingPlayer() of the
\* current score and firstServer.
C3_ServingPlayerNeverStale ==
    game.servingPlayer = calculateServingPlayer(gameDef, game)

\* C3 witness: a new game was started from GAME_OVER with player 1 serving first.
C3_Witness ==
    /\ last.op = "handleGameOver"
    /\ last.ret = TRUE
    /\ game.firstServer = 1
    /\ game.servingPlayer = 1

\* C4: addPoint(player) outside PLAYING, or with player > 1, returns false and
\* leaves the whole game (score, servingPlayer, firstServer, phase,
\* animStartTime) as it was, however often it is repeated.
C4_AddPointNoOp ==
    [][\A player \in PlayerArgs :
         ((game.state # PLAYING \/ player > 1) /\ AddPoint(player)) =>
            /\ game' = game
            /\ last'.ret = FALSE]_vars

\* C4 witness: addPoint returned false in SERVE_CHANGE (the call that enters
\* SERVE_CHANGE returns true, so this call was made during the animation).
C4_Witness ==
    /\ last.op = "addPoint"
    /\ last.ret = FALSE
    /\ last.player \in Players
    /\ game.state = SERVE_CHANGE

\* C5: isGameWon() is true iff some player has POINTS_TO_WIN points and, when
\* both scores are at DEUCE_THRESHOLD or more, leads by WIN_BY; [21,20] is not
\* won and [22,20] is.
C5_IsGameWonRule ==
    last.op = "isGameWon" =>
        /\ last.ret = (\E p \in Players : WinCondition(game, p))
        /\ game.score = Score(21, 20) => last.ret = FALSE
        /\ game.score = Score(22, 20) => last.ret = TRUE

\* C5 witness: isGameWon() was evaluated at [22,20] and returned true.
C5_Witness ==
    /\ last.op = "isGameWon"
    /\ game.score = Score(22, 20)
    /\ last.ret = TRUE

\* C6: winner() is -1 iff the game is not won, else the one player who meets
\* the win condition; no score pair has both players meet it.
C6_WinnerRule ==
    last.op = "winner" =>
        /\ (last.ret = -1) <=> ~isGameWon(game)
        /\ isGameWon(game) =>
              /\ last.ret \in Players
              /\ WinCondition(game, last.ret)
              /\ ~WinCondition(game, 1 - last.ret)
        /\ ~(WinCondition(game, 0) /\ WinCondition(game, 1))

\* C6 witness: winner() returned player 1 for a game won in deuce.
C6_Witness ==
    /\ last.op = "winner"
    /\ game.score = Score(21, 23)
    /\ last.ret = 1

C9_Original ==
    /\ (last.op = "isDeuce" /\ game.score = Score(20, 20)) => last.ret = TRUE
    /\ ( /\ last.op = "calculateServingPlayer"
         /\ game.firstServer = 0
         /\ game.score = Score(21, 20) )
       => last.ret = 1

\* C9 amended: isDeuce() holds at [20,20]; with firstServer = 0, at [21,20] the
\* definition at display.h 503-529 returns player 1 and the definition at
\* display.h 637-655 returns player 0.
C9_DeuceScenario ==
    /\ (last.op = "isDeuce" /\ game.score = Score(20, 20)) => last.ret = TRUE
    /\ ( /\ last.op = "calculateServingPlayer"
         /\ game.firstServer = 0
         /\ game.score = Score(21, 20) )
       => last.ret = (IF gameDef = "GP" THEN 1 ELSE 0)

\* C9 witness: the serve-block definition evaluated at [21,20] with firstServer 0
\* returned player 0.
C9_Witness ==
    /\ last.op = "calculateServingPlayer"
    /\ gameDef = "Plain"
    /\ game.firstServer = 0
    /\ game.score = Score(21, 20)
    /\ last.ret = 0

\* C10: from every reachable PLAYING state, addPoint(p) followed at once by
\* removePoint(p) restores both scores and servingPlayer.
C10_AddRemoveRoundTrip ==
    game.state = PLAYING =>
        \A p \in Players :
            LET g == removePoint(gameDef, addPoint(gameDef, game, p, now).g, p)
            IN /\ g.score = game.score
               /\ g.servingPlayer = game.servingPlayer

\* What does hold: the round trip restores the game while the score fits 8 bits.
RoundTripBelowUint8Max ==
    game.state = PLAYING =>
        \A p \in Players :
            game.score[p] < UINT8 - 1 =>
                LET g == removePoint(gameDef, addPoint(gameDef, game, p, now).g, p)
                IN /\ g.score = game.score
                   /\ g.servingPlayer = game.servingPlayer

\* C11: at every score pair where isGameWon() holds with winner w, isGameWon()
\* still holds and winner() is still w after any number of further points for w.
C11_MonotonicWin ==
    isGameWon(game) =>
        LET w == winner(game) IN
        \A k \in 1 .. UINT8 - 1 :
            LET h == pointsAdded(game, w, k)
            IN isGameWon(h) /\ winner(h) = w

\* What does hold: the win is monotonic while the winner's score fits 8 bits.
MonotonicWinBelowUint8Max ==
    isGameWon(game) =>
        LET w == winner(game) IN
        \A k \in 1 .. (UINT8 - 1 - game.score[w]) :
            LET h == pointsAdded(game, w, k)
            IN isGameWon(h) /\ winner(h) = w

\* a score above POINTS_TO_WIN only with both scores at DEUCE_THRESHOLD or more
AboveWinOnlyInDeuce(g) ==
    \A p \in Players : g.score[p] > POINTS_TO_WIN => BothAtDeuce(g)

\* C12: in every state reachable in normal play, score[p] > POINTS_TO_WIN
\* implies that both scores are at least DEUCE_THRESHOLD.
C12_AboveWinOnlyInDeuce == AboveWinOnlyInDeuce(game)

\* What does hold: every step of normal play in which no score wraps (each
\* score grows, or the game restarts at [0,0]) keeps that property.
AboveWinOnlyInDeuceUnlessWrapped ==
    [][( /\ AboveWinOnlyInDeuce(game)
         /\ \/ \A p \in Players : game'.score[p] >= game.score[p]
            \/ game'.score = Score(0, 0) )
       => AboveWinOnlyInDeuce(game')]_vars

\* C13: removePoint(player) with score[player] = 0, or with player > 1, leaves
\* the whole game (score, servingPlayer, firstServer, phase, animStartTime) as
\* it was, in every phase; no removePoint raises a score (no wrap to 255).
C13_RemovePointNoOp ==
    [][\A player \in PlayerArgs :
         RemovePoint(player) =>
            /\ (player > 1 \/ game.score[player] = 0) => game' = game
            /\ \A p \in Players : game'.score[p] <= game.score[p]]_vars

\* C13 witness: removePoint was called in GAME_OVER for a player without points
\* and the game is still over (a removed point would have set PLAYING).
C13_Witness ==
    /\ last.op = "removePoint"
    /\ last.player \in Players
    /\ last.from = GAME_OVER
    /\ game.state = GAME_OVER
    /\ game.score[last.player] = 0

\* C14: removePoint(player) with score[player] > 0 lowers exactly that score by
\* one and recomputes servingPlayer; the phase becomes PLAYING if it was
\* GAME_OVER and is kept otherwise; animStartTime and firstServer are kept.
C14_RemovePointDecrements ==
    [][\A player \in Players :
         (game.score[player] > 0 /\ RemovePoint(player)) =>
            /\ game'.score[player] = game.score[player] - 1
            /\ game'.score[1 - player] = game.score[1 - player]
            /\ game'.servingPlayer = calculateServingPlayer(gameDef, game')
            /\ game'.state = (IF game.state = GAME_OVER THEN PLAYING ELSE game.state)
            /\ game'.animStartTime = game.animStartTime
            /\ game'.firstServer = game.firstServer]_vars

\* C14 witness: a point was taken back from a finished game, which is PLAYING again.
C14_Witness ==
    /\ last.op = "removePoint"
    /\ last.from = GAME_OVER
    /\ game.state = PLAYING

\* the game reset() leaves behind
ResetState ==
    [score |-> Score(0, 0),
     servingPlayer |-> 0,
     firstServer |-> 0,
     state |-> PLAYING,
     animStartTime |-> 0]

\* C15: reset(), called in any phase (the long-press reset included), yields
\* score [0,0], firstServer 0, servingPlayer = firstServer, phase PLAYING and
\* animStartTime 0.
C15_ResetPostcondition ==
    [][LongPressReset =>
         /\ game' = ResetState
         /\ game'.servingPlayer = game'.firstServer]_vars

\* C15 witness: the long-press reset was made on a finished game.
C15_Witness ==
    /\ last.op = "reset"
    /\ last.from = GAME_OVER
    /\ game = ResetState

\* a step that begins a new game by a button press after a win
NewGameStep == HandleGameOver(TRUE) /\ last'.ret = TRUE

C17_FirstServerFixed ==
    [][game'.firstServer # game.firstServer =>
          (LongPressReset \/ NewGameStep)]_vars

\* C17 witness: a serve change was completed in a game that player 1 served first.
C17_Witness ==
    /\ game.firstServer = 1
    /\ last.op = "handleServeChange"
    /\ last.ret = TRUE

\* the long-press reset is made in this iteration of loop()
HoldFires == resetTriggered' /\ ~resetTriggered

\* C18: after SERVE_CHANGE is entered at time T (the entry stamps
\* animStartTime = T), animateServeChange returns false on every tick with
\* elapsed = now - T < 1500 and true on every tick with elapsed >= 1500; the
\* loop sets PLAYING on the first tick with elapsed >= 1500, once per entry.
C18_ServeChangeLifecycle ==
    [][ /\ game.state = SERVE_CHANGE =>
             /\ \A e \in (1500 - LoopPeriod) .. (1500 + LoopPeriod) :
                    animateServeChange(game, game.animStartTime + e) = (e >= 1500)
             /\ last'.ret = (now - game.animStartTime >= 1500)
             /\ game'.state = (IF now - game.animStartTime >= 1500
                               THEN PLAYING ELSE SERVE_CHANGE)
             /\ now - game.animStartTime < 1500 + LoopPeriod
        /\ (game.state # SERVE_CHANGE /\ game'.state = SERVE_CHANGE) =>
             /\ game.state = PLAYING
             /\ game'.animStartTime = now ]_vars

\* C18 witness: the tick at elapsed = 1500 ms completed the animation and set PLAYING.
C18_Witness ==
    /\ last.op = "loop"
    /\ last.from = SERVE_CHANGE
    /\ last.ret = TRUE
    /\ game.state = PLAYING
    /\ (now - LoopPeriod) - game.animStartTime = 1500

\* C19: while the serve-change animation has not reported completion, an
\* iteration of the loop leaves the game as it is, SERVE_CHANGE included,
\* whatever the buttons do; no long-press reset is made in SERVE_CHANGE.
C19_ServeChangeNotCancelled ==
    [][game.state = SERVE_CHANGE =>
          /\ ~HoldFires
          /\ ~animateServeChange(game, now) => game' = game
          /\ game'.state # SERVE_CHANGE =>
                /\ animateServeChange(game, now)
                /\ game' = [game EXCEPT !.state = PLAYING]]_vars

\* C19 witness: during the animation button 2 registered a press while button 1
\* was held, and the phase is still SERVE_CHANGE.
C19_Witness ==
    /\ last.op = "loop"
    /\ last.from = SERVE_CHANGE
    /\ game.state = SERVE_CHANGE
    /\ btn2.pressed
    /\ isHeld(btn1)
    /\ isHeld(btn2)

\* What the loop guarantees about the long-press reset: game.reset() is never
\* made in SERVE_CHANGE, and in GAME_OVER only LONG_PRESS_MS after the win.
ResetOnlyAfterHold ==
    [][HoldFires =>
          /\ game.state # SERVE_CHANGE
          /\ game.state = GAME_OVER => now - game.animStartTime >= LONG_PRESS_MS]_vars

C21_NewGameOnlyAfterVictory ==
    [][(game.state = GAME_OVER /\ ~animateVictory(game, now) /\ ~HoldFires) =>
          /\ game'.state = GAME_OVER
          /\ game'.score = game.score]_vars

\* What handleGameOver does instead: a registered press starts the new game
\* as soon as more than NewGameGateMs have passed since the win.
NewGameAfterGate ==
    [][(game.state = GAME_OVER /\ ~HoldFires) =>
          (game' # game <=>
             /\ btn1'.pressed \/ btn2'.pressed
             /\ now - game.animStartTime > NewGameGateMs
             /\ game' = newGame(mainDef, game))]_vars

\* C22: the scores are unbounded in extended deuce: every addPoint made in
\* PLAYING at a deuce score raises score[player] by exactly 1 (no cap, no
\* wrap), and the server and the win it decides on are those of the true,
\* unwrapped scores.
C22_ScoresUnbounded ==
    [][\A p \in Players :
         (game.state = PLAYING /\ isDeuce(game) /\ AddPoint(p)) =>
            LET trueGame == [game EXCEPT !.score[p] = @ + 1] IN
            /\ game'.score[p] = game.score[p] + 1
            /\ game'.servingPlayer = calculateServingPlayer(gameDef, trueGame)
            /\ (game'.state = GAME_OVER) = isGameWon(trueGame)
            /\ isGameWon(trueGame) => winner(game') = winner(trueGame)]_vars

\* What addPoint keeps in extended deuce: the claim holds for every point
\* that leaves the score within the 8 bits of uint8_t.
ScoresGrowBelowUint8Max ==
    [][\A p \in Players :
         (game.state = PLAYING /\ isDeuce(game) /\ AddPoint(p)
            /\ game.score[p] < UINT8 - 1) =>
            LET trueGame == [game EXCEPT !.score[p] = @ + 1] IN
            /\ game'.score[p] = game.score[p] + 1
            /\ game'.servingPlayer = calculateServingPlayer(gameDef, trueGame)
            /\ (game'.state = GAME_OVER) = isGameWon(trueGame)
            /\ isGameWon(trueGame) => winner(game') = winner(trueGame)]_vars

\* C23: every transition into SERVE_CHANGE or GAME_OVER is made by addPoint
\* from PLAYING and stamps animStartTime with the current time in that same
\* call; no other operation modifies animStartTime, except reset() (the
\* long-press reset and the new-game start), which sets it to 0.
C23_AnimStartStamped ==
    [][ /\ (game'.state \in {SERVE_CHANGE, GAME_OVER} /\ game'.state # game.state) =>
             /\ game.state = PLAYING
             /\ \E p \in Players : AddPoint(p)
             /\ game'.animStartTime = now
        /\ game'.animStartTime # game.animStartTime =>
             \/ /\ game'.state \in {SERVE_CHANGE, GAME_OVER}
                /\ game'.state # game.state
             \/ /\ LongPressReset \/ NewGameStep
                /\ game'.animStartTime = 0 ]_vars

\* C23 witness: a point just won the game and stamped animStartTime with the
\* current time, later than the stamp the game began with.
C23_Witness ==
    /\ last.op = "addPoint"
    /\ last.from = PLAYING
    /\ game.state = GAME_OVER
    /\ game.animStartTime = now
    /\ now > StartStamp

\* C24: an animation tick never changes the match beyond its completion
\* transition. A tick of handleServeChange keeps score, servingPlayer,
\* firstServer and animStartTime and changes the phase only to PLAYING, only
\* when animateServeChange reports completion; a tick of handleGameOver
\* without a press registered after the new-game gate keeps the whole game.
\* A press made during SERVE_CHANGE is applied neither then nor later: a score
\* grows only in an iteration that begins in PLAYING and in which the scoring
\* button goes from released to pressed.
C24_AnimationTicksKeepMatch ==
    [][ /\ game.state = SERVE_CHANGE =>
             /\ game'.score = game.score
             /\ game'.servingPlayer = game.servingPlayer
             /\ game'.firstServer = game.firstServer
             /\ game'.animStartTime = game.animStartTime
             /\ game'.state \in {SERVE_CHANGE, PLAYING}
             /\ (game'.state = PLAYING) = animateServeChange(game, now)
        /\ (/\ game.state = GAME_OVER
            /\ ~HoldFires
            /\ ~((btn1'.pressed \/ btn2'.pressed)
                   /\ now - game.animStartTime > NewGameGateMs)) =>
             game' = game
        /\ game'.score[0] > game.score[0] =>
             /\ game.state = PLAYING
             /\ btn1.currentState = HIGH
             /\ btn1'.currentState = LOW
        /\ game'.score[1] > game.score[1] =>
             /\ game.state = PLAYING
             /\ btn2.currentState = HIGH
             /\ btn2'.currentState = LOW ]_vars

\* C24 witness: button 1 alone registered a press during the serve-change
\* animation and the game is still in SERVE_CHANGE.
C24_Witness ==
    /\ last.op = "loop"
    /\ last.from = SERVE_CHANGE
    /\ last.ret = FALSE
    /\ game.state = SERVE_CHANGE
    /\ btn1.pressed
    /\ ~isHeld(btn2)

\* C25 as stated: the startup animation is one-shot: after the one run of
\* setup() the polling loop never runs it again, so no iteration of the loop
\* blocks for the startup sequence.
C25_StartupOneShot ==
    [][startupRuns' = startupRuns /\ now' - now < StartupMs]_vars

\* C25 amended: animateStartup() runs once in setup() and once more in every
\* iteration of the loop that makes the long-press reset, and in no other
\* iteration; the iteration of a reset blocks for the whole startup sequence
\* (at least StartupMs), every other iteration for less.
C25_StartupReplayedOnReset ==
    [][IF HoldFires
       THEN /\ startupRuns' = startupRuns + 1
            /\ now' - now >= StartupMs
            /\ game.state # SERVE_CHANGE
       ELSE /\ startupRuns' = startupRuns
            /\ now' - now < StartupMs]_vars

\* C25 witness: the loop has just made a long-press reset and with it the
\* second run of the startup animation.
C25_Witness ==
    /\ last.op = "loop"
    /\ startupRuns = 2
    /\ resetTriggered
    /\ game = reset(game)
    /\ now - bothHeldSince >= LONG_PRESS_MS + StartupMs

\* the score cells of player p
scoreRegion(p) ==
    IF p = 0 THEN 0 .. SCORE_LEDS_PER_SIDE - 1
    ELSE TOTAL_LEDS - SCORE_LEDS_PER_SIDE .. TOTAL_LEDS - 1

\* the buffer shows the score of g with the loser's score cells scaled by
\* LOSER_DIM and the winner's as renderScore drew them
LoserDimmed(buf, g) ==
    \E dpulse \in DeucePulses :
       LET base == renderScore(displayDef, clearAll, g, dpulse)
       IN /\ winner(g) \in Players
          /\ \A i \in scoreRegion(1 - winner(g)) : buf[i] = nscale8(base[i], LOSER_DIM)
          /\ \A i \in scoreRegion(winner(g)) : buf[i] = base[i]

\* C26: on every tick of handleGameOver after the victory animation has
\* completed, the frame drawn is the game-over variant of the score: every
\* score cell of the loser scaled by LOSER_DIM, the winner's cells undimmed.
C26_GameOverFrameDimmed ==
    (last.op = "handleGameOver" /\ last.ret = TRUE) => LoserDimmed(leds, game)

\* What holds of the frame after the victory animation: the handleGameOver of
\* part_000 draws the game-over variant; the handleGameOver of src/main.cpp
\* draws the frame of renderPlaying, nothing dimmed and the server's indicator lit.
GameOverFramePerMain ==
    (last.op = "handleGameOver" /\ last.ret = TRUE) =>
       IF mainDef = "LoserFirst"
       THEN LoserDimmed(leds, game)
       ELSE \E pulse \in ServePulses, dpulse \in DeucePulses :
               leds = renderPlaying(displayDef, game, pulse, dpulse)

\* the indicator cell of player p
serveIdx(p) == IF p = 0 THEN p1ServeIdx ELSE p2ServeIdx

\* C27: after every frame of renderPlaying or renderIdle the indicator cell of
\* the serving player (SCORE_LEDS_PER_SIDE for player 0,
\* TOTAL_LEDS - SCORE_LEDS_PER_SIDE - 1 for player 1) is lit and the indicator
\* cell of the other player is background; in a frame of renderIdle every
\* other cell is background too.
C27_ServeIndicator ==
    (last.op \in {"renderPlaying", "renderIdle"}) =>
       /\ serveIdx(0) = SCORE_LEDS_PER_SIDE
       /\ serveIdx(1) = TOTAL_LEDS - SCORE_LEDS_PER_SIDE - 1
       /\ leds[serveIdx(game.servingPlayer)] # BG_COLOR
       /\ leds[serveIdx(1 - game.servingPlayer)] = BG_COLOR
       /\ last.op = "renderIdle" =>
             \A i \in Cells \ {serveIdx(game.servingPlayer)} : leds[i] = BG_COLOR

\* C27 witness: a frame of renderPlaying with player 1 serving in deuce, the
\* advantage of player 0 drawn next to the indicators.
C27_Witness ==
    /\ last.op = "renderPlaying"
    /\ game.servingPlayer = 1
    /\ isDeuce(game)
    /\ game.score[0] > game.score[1]
    /\ leds[p2ServeIdx] = nscale8(SERVE_COLOR, ServePulseMin)

\* the cells between the two score runs, indicator cells included
gapCells == SCORE_LEDS_PER_SIDE .. TOTAL_LEDS - SCORE_LEDS_PER_SIDE - 1

\* C28: on every frame 0 .. totalFrames - 1 of the serve-change animation, in
\* either direction, every cell the trail writes lies in the gap
\* SCORE_LEDS_PER_SIDE .. TOTAL_LEDS - SCORE_LEDS_PER_SIDE - 1; no score cell
\* is written by the trail. (display.h 101-133 and part_002 105-149)
C28_TrailInGap ==
    (last.op = "animateServeChange" /\ last.ret = FALSE) =>
       /\ last.trail \subseteq gapCells
       /\ \A i \in Cells \ gapCells :
             leds[i] = renderScore(displayDef, clearAll, game, DeucePulseMin)[i]
                \/ \E dpulse \in DeucePulses :
                      leds[i] = renderScore(displayDef, clearAll, game, dpulse)[i]

\* What holds of the trail: the animateServeChange of part_002 clips it to the
\* gap; the animateServeChange of display.h keeps the head in the gap and the
\* trail within the 9 cells before the old server's indicator.
TrailNearGap ==
    (last.op = "animateServeChange" /\ last.ret = FALSE) =>
       /\ last.head \in gapCells
       /\ displayDef = "Contiguous" => last.trail \subseteq gapCells
       /\ displayDef = "EveryOther" =>
             last.trail \subseteq (SCORE_LEDS_PER_SIDE - 9) .. (TOTAL_LEDS - SCORE_LEDS_PER_SIDE + 8)

\* the last action drew frame number n of a serve-change animation
drewFrame(l, n) == l.op = "animateServeChange" /\ l.ret = FALSE /\ l.player = n

\* C29 as stated: the direction of the sweep is determined by who gained the
\* serve: the head is at the old server's indicator on frame 0, moves
\* monotonically and is at the new server's indicator on frame
\* totalFrames - 1, left to right when the serve passes to player 1 and right
\* to left when it passes to player 0. (display.h 111-129 and part_002 115-140)
C29_Original ==
    [][(game'.state = SERVE_CHANGE /\ last'.op = "animateServeChange" /\ last'.ret = FALSE) =>
          /\ drewFrame(last', 0) => last'.head = serveIdx(1 - game'.servingPlayer)
          /\ drewFrame(last', totalFrames - 1) => last'.head = serveIdx(game'.servingPlayer)
          /\ (last.op = "animateServeChange" /\ last.ret = FALSE) =>
                IF game'.servingPlayer = 1
                THEN last'.head >= last.head
                ELSE last'.head <= last.head]_vars

\* C29 amended: with the animateServeChange of display.h the head is at the
\* old server's indicator on frame 0, moves monotonically and is at the new
\* server's indicator on frame totalFrames - 1, left to right when the serve
\* passes to player 1 and right to left when it passes to player 0. With the
\* animateServeChange of part_002 the sweep does not depend on the server: the
\* head is at player 0's indicator on frame 0, moves right up to frame
\* totalFrames / 2, where it is at player 1's indicator, and then moves left,
\* ending 5 cells short of player 0's indicator on frame totalFrames - 1.
C29_SweepDirection ==
    [][(game'.state = SERVE_CHANGE /\ last'.op = "animateServeChange" /\ last'.ret = FALSE) =>
          IF displayDef = "EveryOther"
          THEN /\ drewFrame(last', 0) => last'.head = serveIdx(1 - game'.servingPlayer)
               /\ drewFrame(last', totalFrames - 1) => last'.head = serveIdx(game'.servingPlayer)
               /\ (last.op = "animateServeChange" /\ last.ret = FALSE) =>
                     IF game'.servingPlayer = 1
                     THEN last'.head >= last.head
                     ELSE last'.head <= last.head
          ELSE /\ drewFrame(last', 0) => last'.head = p1ServeIdx
               /\ drewFrame(last', totalFrames \div 2) => last'.head = p2ServeIdx
               /\ drewFrame(last', totalFrames - 1) => last'.head = p1ServeIdx + 5
               /\ (last.op = "animateServeChange" /\ last.ret = FALSE) =>
                     IF last'.player < totalFrames \div 2
                     THEN last'.head >= last.head
                     ELSE IF last.player >= totalFrames \div 2
                     THEN last'.head <= last.head
                     ELSE last'.head = p2ServeIdx]_vars

\* C29 witness: the last frame of a sweep towards player 0 has been drawn by
\* the animateServeChange of display.h, the head on player 0's indicator.
C29_Witness ==
    /\ displayDef = "EveryOther"
    /\ drewFrame(last, totalFrames - 1)
    /\ game.state = SERVE_CHANGE
    /\ game.servingPlayer = 0
    /\ last.head = p1ServeIdx
    /\ leds[p1ServeIdx] = nscale8(SERVE_ANIM_COLOR, 255)

\* C30: colorForPoint(n) for 1 <= n is
\* SCORE_COLORS[min((n - 1) div 5, NUM_SCORE_COLORS - 1)] (point 7 is in band
\* 1, every point from 21 on in the last band), and colorForPoint(0) is the
\* background colour.
C30_ColorForPoint ==
    last.op = "colorForPoint" =>
       LET n == last.player
           band == IF (n - 1) \div 5 < NUM_SCORE_COLORS - 1
                   THEN (n - 1) \div 5 ELSE NUM_SCORE_COLORS - 1
       IN /\ n = 0 => last.ret = BG_COLOR
          /\ n >= 1 => last.ret = SCORE_COLORS[band + 1]
          /\ n = 7 => last.ret = Green
          /\ n = 24 => last.ret = Red
          /\ NUM_SCORE_COLORS = Len(SCORE_COLORS)

\* C30 witness: colorForPoint(24) returned the colour of the last band.
C30_Witness ==
    /\ last.op = "colorForPoint"
    /\ last.player = 24
    /\ last.ret = SCORE_COLORS[NUM_SCORE_COLORS]

bothPressed(l) == l.op = "handlePlaying" /\ l.press = <<TRUE, TRUE>>

\* C34: when both buttons register a press in the same PLAYING tick, player
\* 0's point is applied first and player 1's only if the phase is still
\* PLAYING afterwards: the tick ends with both scores incremented by 1, or
\* with only score[0] incremented by 1 (player 0's point won the game or
\* changed the serve); never with only score[1] incremented.
C34_BothPressedOrder ==
    [][(game.state = PLAYING /\ bothPressed(last')) =>
          LET first == addPoint(gameDef, game, 0, now).g IN
          /\ game'.score[0] = game.score[0] + 1
          /\ IF first.state = PLAYING
             THEN game'.score[1] = game.score[1] + 1
             ELSE game'.score[1] = game.score[1] /\ game' = first]_vars

\* What the tick keeps: the same order of the two points with each increment
\* taken in the 8 bits of the score.
BothPressedOrderMod256 ==
    [][(game.state = PLAYING /\ bothPressed(last')) =>
          LET first == addPoint(gameDef, game, 0, now).g IN
          /\ game'.score[0] = (game.score[0] + 1) % UINT8
          /\ IF first.state = PLAYING
             THEN game'.score[1] = (game.score[1] + 1) % UINT8
             ELSE game'.score[1] = game.score[1] /\ game' = first]_vars

\* C35: the press that starts a new game from GAME_OVER is never also counted
\* as a point. The iteration that starts the new game ends with score [0,0]
\* in PLAYING, and a score changes in PLAYING only in an iteration that itself
\* registers a press of that player's button: the button was released at the
\* end of the iteration before and its press is stamped with this iteration's
\* clock, so it is a later press than the one that started the game.
C35_NewGamePressNoPoint ==
    [][ /\ (game.state = GAME_OVER /\ game'.state = PLAYING /\ ~HoldFires) =>
             /\ game'.score = Score(0, 0)
             /\ game'.state = PLAYING
             /\ btn1'.pressed \/ btn2'.pressed
        /\ (game.state = PLAYING /\ ~HoldFires /\ game'.score[0] # game.score[0]) =>
             /\ btn1.currentState = HIGH
             /\ btn1'.pressed
             /\ btn1'.lastPressTime = now
             /\ btn1'.lastPressTime > btn1.lastPressTime
        /\ (game.state = PLAYING /\ ~HoldFires /\ game'.score[1] # game.score[1]) =>
             /\ btn2.currentState = HIGH
             /\ btn2'.pressed
             /\ btn2'.lastPressTime = now
             /\ btn2'.lastPressTime > btn2.lastPressTime ]_vars

\* C35 witness: the iteration that began in GAME_OVER has started a new game
\* on a press of button 1, which is still held.
C35_Witness ==
    /\ last.op = "loop"
    /\ last.from = GAME_OVER
    /\ game.state = PLAYING
    /\ game.score = Score(0, 0)
    /\ btn1.pressed
    /\ isHeld(btn1)
    /\ ~resetTriggered
    /\ now - btn1.lastPressTime = NewGameDelayMs + LoopPeriod

\* C36: the serve-change animation always terminates: whenever the phase is
\* SERVE_CHANGE it eventually becomes PLAYING again, with no input needed,
\* given that the loop keeps running and the clock keeps advancing; the
\* system never remains in SERVE_CHANGE for ever.
C36_ServeChangeEnds == (game.state = SERVE_CHANGE) ~> (game.state = PLAYING)

\* C36 witness: a tick of handleServeChange found the animation complete and
\* returned the phase to PLAYING.
C36_Witness ==
    /\ last.op = "handleServeChange"
    /\ last.from = SERVE_CHANGE
    /\ last.ret = TRUE
    /\ game.state = PLAYING
    /\ now - game.animStartTime >= totalFrames * ANIMATION_SPEED_MS

\* While the phase is SERVE_CHANGE the modelled time always leaves room for
\* the animation to complete.
ServeChangeFitsTime ==
    game.state = SERVE_CHANGE =>
        \/ animateServeChange(game, now)
        \/ now + TickMs <= TimeLimit

\* both buttons read LOW in this iteration of loop()
bothHeldNow == isHeld(btn1') /\ isHeld(btn2')

C38_ServersArePlayers ==
    /\ game.firstServer \in Players
    /\ game.servingPlayer \in Players
    /\ game.state = GAME_OVER =>
          /\ winner(game) \in Players
          /\ newGame("LoserFirst", game).firstServer = 1 - winner(game)
          /\ newGame("LoserFirst", game).firstServer \in Players
          /\ newGame("LoserFirst", game).servingPlayer \in Players

\* C38 witness: the new-game branch that gives the first serve to the loser
\* has executed after a win of player 0.
C38_Witness ==
    /\ mainDef = "LoserFirst"
    /\ last.op = "handleGameOver"
    /\ last.ret = TRUE
    /\ game.state = PLAYING
    /\ game.firstServer = 1
    /\ game.servingPlayer = 1

\* C39: in no iteration of loop() is a button's edge-detected pressed flag true
\* while resetTriggered is true. resetTriggered is true after the long-press
\* block only in an iteration in which both buttons were already held at the
\* end of the iteration before, so neither update() saw a falling edge; the
\* test !resetTriggered of handlePlaying therefore never suppresses a point:
\* handlePlaying gives the same game with and without it.
C39_LatchNeverHidesPress ==
    [][resetTriggered' =>
          LET g1 == IF HoldFires THEN reset(game) ELSE game IN
          /\ isHeld(btn1) /\ isHeld(btn2)
          /\ bothHeldSince # 0
          /\ ~btn1'.pressed
          /\ ~btn2'.pressed
          /\ handlePlaying(gameDef, g1, btn1', btn2', TRUE, now)
               = handlePlaying(gameDef, g1, btn1', btn2', FALSE, now)]_vars

\* C39 witness: an iteration that began in PLAYING ran handlePlaying with
\* resetTriggered set, some iterations after the reset of the hold.
C39_Witness ==
    /\ last.op = "loop"
    /\ last.from = PLAYING
    /\ resetTriggered
    /\ game.state = PLAYING
    /\ ~btn1.pressed
    /\ ~btn2.pressed
    /\ now - bothHeldSince = LONG_PRESS_MS + ResetBlockMs + 3 * LoopPeriod

====
